---- MODULE Spec2Model ----
(***************************************************************************)
(* Model of the Ouroboros integration glue:                                *)
(*   - ollama_agent.py: OllamaAgent.__init__ and OllamaAgent.__call__      *)
(*     (message normalisation, dispatch to the chat backend, containment   *)
(*     of failures);                                                       *)
(*   - scripts/whisper_transcribe.py: main() of the transcription CLI.     *)
(* Python values that may have several types are records with a `kind`     *)
(* field.  A missing mapping key / attribute is the marker Absent.         *)
(***************************************************************************)
EXTENDS Integers, Sequences, FiniteSets, TLC

\* ------------------------------------------------------------------ bounds
MaxLen == 2      \* longest list payload handed to __call__
MaxCalls == 2    \* invocations of __call__ explored per behaviour
MaxSegs == 2     \* most segments in a recognition result

\* ------------------------------------------------------- value universe
Absent == "<absent>"

\* Elements a list payload may hold: dicts (with or without the two keys),
\* objects (with or without the two attributes), and a plain number.
DictElems ==
    { [kind |-> "dict", role |-> "system", content |-> "Be terse"],
      [kind |-> "dict", role |-> "user",   content |-> "Hi"],
      [kind |-> "dict", role |-> Absent,   content |-> "Hi"] }

ObjElems ==
    { [kind |-> "obj", role |-> "assistant", content |-> "Ok"],
      [kind |-> "obj", role |-> "user",      content |-> Absent] }

OtherElems == { [kind |-> "int", role |-> Absent, content |-> Absent, n |-> 7] }

Elements == DictElems \cup ObjElems \cup OtherElems

RECURSIVE SeqsUpTo(_, _)
SeqsUpTo(S, n) ==
    IF n = 0 THEN { <<>> }
    ELSE LET shorter == SeqsUpTo(S, n - 1)
         IN  shorter \cup { Append(s, e) : s \in { t \in shorter : Len(t) = n - 1 }, e \in S }

Texts == { "", "Hello, how are you?" }

\* Inbound payloads: a str, a list, an int, or some other object.
Payloads ==
    { [kind |-> "str", text |-> t] : t \in Texts }
    \cup { [kind |-> "list", elems |-> s] : s \in SeqsUpTo(Elements, MaxLen) }
    \cup { [kind |-> "int", n |-> 42], [kind |-> "object"] }

\* What the backend does with one chat-completion request: it raises, or it
\* answers with a (possibly empty) list of choices.
ChoiceA == [role |-> "assistant", content |-> "I'm fine"]
ChoiceB == [role |-> "assistant", content |-> "Hello"]

Outcomes ==
    { [kind |-> "raise", exc |-> e] :
        e \in { "Connection error.", "Request timed out.",
                "Error code: 401", "model 'llama3' not found" } }
    \cup { [kind |-> "ok", choices |-> c] :
        c \in { <<>>, <<ChoiceA>>, <<ChoiceB, ChoiceA>> } }

Models == { "llama3" }
Hosts == { "http://host.docker.internal:11434" }

\* Transcription CLI: parsed arguments and what the speech backend does.
None == "<None>"

Args ==
    [ audio_file : { "clip.wav" },
      language : { None, "en" },
      task : { "transcribe", "translate" },
      output : { "json", "text" } ]

Segments ==
    { [start |-> 0, end |-> 2, text |-> " Hello"],
      [start |-> 2, end |-> 4, text |-> " world. "] }

\* The dict model.transcribe returns; language Absent: the key is missing.
TranscribeResults ==
    [ text : { " Hello world. ", "Hi" },
      language : { Absent, "en" },
      segments : SeqsUpTo(Segments, MaxSegs) ]

ImportOutcomes == { "ok", "ImportError" }

LoadOutcomes ==
    { [kind |-> "ok"], [kind |-> "raise", exc |-> "model load failed"] }

TranscribeOutcomes ==
    { [kind |-> "raise", exc |-> e] :
        e \in { "No such file or directory: 'clip.wav'", "recognition error" } }
    \cup { [kind |-> "ok", result |-> r] : r \in TranscribeResults }

NoArgs == [kind |-> "none"]
NoEnv == [kind |-> "none"]
NoOptions == [kind |-> "none"]

NoAgent == [kind |-> "none"]
NoPayload == [kind |-> "none"]
NoOutcome == [kind |-> "none"]
NoResult == [kind |-> "none"]

\* ------------------------------------------------------------------ state
VARIABLES
    openai,        \* "module" or "None": outcome of the guarded import
    agent,         \* the OllamaAgent instance the caller holds, or NoAgent
    constructed,   \* "never", "ok" or "raised": outcome of the last __init__
    invocations,   \* number of __call__ invocations made
    backendCalls,  \* number of chat.completions.create calls made
    messages,      \* payload of the last __call__
    outcome,       \* what the backend did during the last __call__
    requests,      \* the requests sent to the backend by the last __call__
    result,        \* what the last __call__ returned
    raised         \* TRUE iff the last __call__ raised to its caller

agentVars == << openai, agent, constructed, invocations, backendCalls,
                messages, outcome, requests, result, raised >>

VARIABLES
    pc,            \* "start" or "exited": position of the CLI process
    args,          \* the parsed command line of the CLI run
    env,           \* what import, load_model and transcribe did in the run
    options,       \* keyword options handed to model.transcribe
    stdout,        \* what the run printed to stdout, in order
    stderr,        \* what the run printed to stderr, in order
    exitStatus     \* exit status of the run (meaningful once pc = "exited")

cliVars == << pc, args, env, options, stdout, stderr, exitStatus >>

vars == << agentVars, cliVars >>

\* ------------------------------------------------------ message normaliser
\* repr() of a list element, as str(list) prints it.
Repr(msg) ==
    IF msg.kind = "dict" THEN
        "{"
        \o (IF msg.role # Absent THEN "'role': '" \o msg.role \o "'" ELSE "")
        \o (IF msg.role # Absent /\ msg.content # Absent THEN ", " ELSE "")
        \o (IF msg.content # Absent THEN "'content': '" \o msg.content \o "'" ELSE "")
        \o "}"
    ELSE IF msg.kind = "obj" THEN "<Message object>"
    ELSE ToString(msg.n)

RECURSIVE JoinRepr(_)
JoinRepr(elems) ==
    IF Len(elems) = 0 THEN ""
    ELSE IF Len(elems) = 1 THEN Repr(elems[1])
    ELSE Repr(elems[1]) \o ", " \o JoinRepr(Tail(elems))

\* str(messages)
Str(payload) ==
    IF payload.kind = "str" THEN payload.text
    ELSE IF payload.kind = "int" THEN ToString(payload.n)
    ELSE IF payload.kind = "list" THEN "[" \o JoinRepr(payload.elems) \o "]"
    ELSE "<object object>"

\* hasattr(msg, 'role') and hasattr(msg, 'content')
HasAttrs(msg) == msg.kind = "obj" /\ msg.role # Absent /\ msg.content # Absent

\* A mutation of FormatList: each message is inserted at the front.
FormatListReversed(elems) ==
    LET RECURSIVE Rev(_)
        Rev(es) ==
            IF Len(es) = 0 THEN <<>>
            ELSE LET msg == es[1]
                 IN  IF msg.kind = "dict" \/ HasAttrs(msg)
                     THEN Rev(Tail(es)) \o << [role |-> msg.role, content |-> msg.content] >>
                     ELSE Rev(Tail(es))
    IN  Rev(elems)

\* The for loop over a list payload: a dict is appended as it is, an object
\* with both attributes is copied, anything else is passed over.
RECURSIVE FormatList(_)
FormatList(elems) ==
    IF Len(elems) = 0 THEN <<>>
    ELSE LET msg == elems[1]
             rest == FormatList(Tail(elems))
         IN  IF msg.kind = "dict"
             THEN << [role |-> msg.role, content |-> msg.content] >> \o rest
             ELSE IF HasAttrs(msg)
             THEN << [role |-> msg.role, content |-> msg.content] >> \o rest
             ELSE rest

\* A mutation of FormatMessages: a str payload is wrapped by its repr().
FormatMessagesRepr(payload) ==
    LET formatted_messages ==
            IF payload.kind = "list" THEN FormatList(payload.elems)
            ELSE IF payload.kind = "str"
            THEN << [role |-> "user", content |-> "'" \o payload.text \o "'"] >>
            ELSE <<>>
    IN  IF formatted_messages = <<>>
        THEN << [role |-> "user", content |-> Str(payload)] >>
        ELSE formatted_messages

\* formatted_messages as it stands when the backend is called.
FormatMessages(payload) ==
    LET formatted_messages ==
            IF payload.kind = "list" THEN FormatList(payload.elems)
            ELSE IF payload.kind = "str"
            THEN << [role |-> "user", content |-> payload.text] >>
            ELSE <<>>
    IN  IF formatted_messages = <<>>
        THEN << [role |-> "user", content |-> Str(payload)] >>
        ELSE formatted_messages

\* --------------------------------------------------------------- dispatch
ErrorString(e) == [kind |-> "str", text |-> "Error: " \o e]

\* A mutation of Create: a failed request is sent a second time.
CreateRetry(client, request, o) ==
    [requests |-> IF o.kind = "raise" THEN << request, request >> ELSE << request >>,
     response |-> o]

\* self.client.chat.completions.create(...): one request goes out and the
\* backend raises or answers.
Create(client, request, o) ==
    [requests |-> << request >>, response |-> o]

\* A mutation of Choice: the last choice is taken.
ChoiceLast(choices) == choices[Len(choices)]

\* response.choices[0].message
Choice(choices) == choices[1]

\* The try body: normalise, call the backend, take choices[0].message.
\* Yields the requests sent and either the value returned or the exception.
Body(self, payload, o) ==
    LET request == [model |-> self.model,
                    messages |-> FormatMessages(payload),
                    temperature |-> "0.7"]
        created == Create(self.client, request, o)
    IN  IF self.client.kind = "None"
        THEN [requests |-> <<>>, kind |-> "raise",
              exc |-> "'NoneType' object has no attribute 'chat'"]
        ELSE IF created.response.kind = "raise"
        THEN [requests |-> created.requests, kind |-> "raise",
              exc |-> created.response.exc]
        ELSE IF Len(created.response.choices) = 0
        THEN [requests |-> created.requests, kind |-> "raise",
              exc |-> "list index out of range"]
        ELSE [requests |-> created.requests, kind |-> "return",
              value |-> [kind |-> "message",
                         message |-> Choice(created.response.choices)]]

\* A mutation of Except: only the backend's own errors are caught.
ExceptBackendOnly(body) ==
    IF body.kind = "raise"
    THEN IF body.exc = "list index out of range"
         THEN [requests |-> body.requests, raised |-> TRUE, value |-> NoResult]
         ELSE [requests |-> body.requests, raised |-> FALSE, value |-> ErrorString(body.exc)]
    ELSE [requests |-> body.requests, raised |-> FALSE, value |-> body.value]

\* except Exception as e: return f"Error: {e}"
Except(body) ==
    IF body.kind = "raise"
    THEN [requests |-> body.requests, raised |-> FALSE, value |-> ErrorString(body.exc)]
    ELSE [requests |-> body.requests, raised |-> FALSE, value |-> body.value]

\* ---------------------------------------------------------------- actions
Init ==
    /\ openai \in { "module", "None" }
    /\ agent = NoAgent
    /\ constructed = "never"
    /\ invocations = 0
    /\ backendCalls = 0
    /\ messages = NoPayload
    /\ outcome = NoOutcome
    /\ requests = <<>>
    /\ result = NoResult
    /\ raised = FALSE
    /\ pc = "start"
    /\ args = NoArgs
    /\ env = NoEnv
    /\ options = NoOptions
    /\ stdout = <<>>
    /\ stderr = <<>>
    /\ exitStatus = 0

\* A mutation of Construct: the client is bound without the import check.
ConstructDeferred(model, host) ==
    /\ constructed' = "ok"
    /\ agent' = [kind |-> "OllamaAgent", model |-> model, host |-> host,
                 client |-> IF openai = "None" THEN [kind |-> "None"]
                            ELSE [kind |-> "OpenAI",
                                  base_url |-> host \o "/v1",
                                  api_key |-> "ollama"]]
    /\ UNCHANGED << openai, invocations, backendCalls, messages, outcome,
                    requests, result, raised, cliVars >>

\* OllamaAgent(model, host)
Construct(model, host) ==
    /\ IF openai = "None"
       THEN /\ constructed' = "raised"
            /\ agent' = agent
       ELSE /\ constructed' = "ok"
            /\ agent' = [kind |-> "OllamaAgent", model |-> model, host |-> host,
                         client |-> [kind |-> "OpenAI",
                                     base_url |-> host \o "/v1",
                                     api_key |-> "ollama"]]
    /\ UNCHANGED << openai, invocations, backendCalls, messages, outcome,
                    requests, result, raised, cliVars >>

\* agent(messages)
Call(payload, o) ==
    /\ agent # NoAgent
    /\ invocations < MaxCalls
    /\ LET r == Except(Body(agent, payload, o))
       IN  /\ messages' = payload
           /\ outcome' = o
           /\ requests' = r.requests
           /\ result' = r.value
           /\ raised' = r.raised
           /\ backendCalls' = backendCalls + Len(r.requests)
           /\ invocations' = invocations + 1
    /\ UNCHANGED << openai, agent, constructed, cliVars >>

Next ==
    \/ \E model \in Models, host \in Hosts : Construct(model, host)
    \/ \E payload \in Payloads, o \in Outcomes : Call(payload, o)

Spec == Init /\ [][Next]_vars

\* ------------------------------------------------------ transcription CLI
\* str.strip() on the texts the backend produces.
Strip(s) ==
    CASE s = " Hello world. " -> "Hello world."
      [] s = " Hello" -> "Hello"
      [] s = " world. " -> "world."
      [] OTHER -> s

\* The options dict built before model.transcribe is called.
Options(a) ==
    [task |-> a.task, verbose |-> FALSE,
     language |-> IF a.language # None THEN a.language ELSE Absent]

JsonError(e) == [kind |-> "json", obj |-> [error |-> e]]

TextLine(s) == [kind |-> "text", line |-> s]

\* The object printed for --output json.
JsonTranscript(r) ==
    [kind |-> "json",
     obj |-> [text |-> Strip(r.text),
              language |-> IF r.language # Absent THEN r.language ELSE "unknown",
              segments |-> [i \in 1..Len(r.segments) |->
                              [start |-> r.segments[i].start,
                               end |-> r.segments[i].end,
                               text |-> Strip(r.segments[i].text)]]]]

\* except ImportError: the backend is not installed.
ImportHandler(a) ==
    [stdout |-> <<>>,
     stderr |-> << JsonError("whisper not installed. Run: pip install openai-whisper") >>,
     exitStatus |-> 1]

\* A mutation of ExceptionHandler: the handler returns without sys.exit(1).
ExceptionHandlerNoExit(a, e) ==
    IF a.output = "json"
    THEN [stdout |-> << JsonError(e) >>, stderr |-> <<>>, exitStatus |-> 0]
    ELSE [stdout |-> <<>>, stderr |-> << TextLine("Error: " \o e) >>, exitStatus |-> 0]

\* except Exception as e: of the second try.
ExceptionHandler(a, e) ==
    IF a.output = "json"
    THEN [stdout |-> << JsonError(e) >>, stderr |-> <<>>, exitStatus |-> 1]
    ELSE [stdout |-> <<>>, stderr |-> << TextLine("Error: " \o e) >>, exitStatus |-> 1]

\* The printing of a recognition result; main then returns and the
\* interpreter exits with status 0.
Emit(a, r) ==
    IF a.output = "json"
    THEN [stdout |-> << JsonTranscript(r) >>, stderr |-> <<>>, exitStatus |-> 0]
    ELSE [stdout |-> << TextLine(Strip(r.text)) >>, stderr |-> <<>>, exitStatus |-> 0]

\* One run of the CLI process, from parsed arguments to exit.
main(a, imp, load, tr) ==
    /\ LET run == IF imp = "ImportError" THEN ImportHandler(a)
                  ELSE IF load.kind = "raise" THEN ExceptionHandler(a, load.exc)
                  ELSE IF tr.kind = "raise" THEN ExceptionHandler(a, tr.exc)
                  ELSE Emit(a, tr.result)
       IN  /\ stdout' = run.stdout
           /\ stderr' = run.stderr
           /\ exitStatus' = run.exitStatus
    /\ pc' = "exited"
    /\ args' = a
    /\ env' = [whisper |-> imp, load_model |-> load, transcribe |-> tr]
    /\ options' = IF imp = "ok" /\ load.kind = "ok" THEN Options(a) ELSE NoOptions
    /\ UNCHANGED agentVars

NextCLI ==
    \E a \in Args, imp \in ImportOutcomes, load \in LoadOutcomes,
       tr \in TranscribeOutcomes : main(a, imp, load, tr)

SpecCLI == Init /\ [][NextCLI]_vars

\* ----------------------------------------------------------------- claims
\* The backend call of the last invocation failed: it raised, or it answered
\* with an empty choices list.
BackendFailed ==
    invocations > 0 /\ (outcome.kind = "raise"
                        \/ (outcome.kind = "ok" /\ outcome.choices = <<>>))

FailureDetails ==
    { o.exc : o \in { x \in Outcomes : x.kind = "raise" } }
    \cup { "list index out of range" }

\* role and content are both there, as keys of a dict or attributes of an object
Exposes(msg) ==
    msg.kind \in { "dict", "obj" } /\ msg.role # Absent /\ msg.content # Absent

\* C1: whatever the payload and however the backend call fails, __call__
\* does not raise to its caller and returns the string "Error: <details>".
C1_NeverRaises ==
    BackendFailed =>
        /\ ~raised
        /\ result.kind = "str"
        /\ \E d \in FailureDetails : result.text = "Error: " \o d

C1_Witness ==
    /\ BackendFailed
    /\ outcome.kind = "ok"
    /\ messages.kind = "list"
    /\ result.kind = "str"

\* C2: when the backend call succeeds, __call__ returns the message of the
\* first choice unchanged, not a string and not a later choice.
C2_FirstChoice ==
    (invocations > 0 /\ outcome.kind = "ok" /\ outcome.choices # <<>>) =>
        /\ ~raised
        /\ result.kind = "message"
        /\ result.message = outcome.choices[1]
        /\ result.message.role = outcome.choices[1].role
        /\ result.message.content = outcome.choices[1].content

C2_Witness ==
    /\ invocations > 0
    /\ outcome.kind = "ok"
    /\ Len(outcome.choices) = 2
    /\ outcome.choices[1] # outcome.choices[2]
    /\ result.kind = "message"
    /\ result.message = ChoiceB

\* C3: for a payload that is a single text (the empty text included), the
\* message list passed to the backend is exactly one message with role
\* "user" and the text as content.
C3_TextPayload ==
    (invocations > 0 /\ messages.kind = "str") =>
        /\ requests # <<>>
        /\ \A k \in 1..Len(requests) :
              requests[k].messages = << [role |-> "user", content |-> messages.text] >>

C3_Witness ==
    /\ invocations > 0
    /\ messages.kind = "str"
    /\ messages.text = ""
    /\ requests # <<>>

\* C4: for a non-empty list payload whose elements all expose role and
\* content (dicts and objects in any mix), the message list passed to the
\* backend has the payload's length and its i-th message carries the i-th
\* element's role and content.
C4_ListInOrder ==
    (/\ invocations > 0
     /\ messages.kind = "list"
     /\ messages.elems # <<>>
     /\ \A i \in 1..Len(messages.elems) : Exposes(messages.elems[i])) =>
        /\ requests # <<>>
        /\ \A k \in 1..Len(requests) :
              /\ Len(requests[k].messages) = Len(messages.elems)
              /\ \A i \in 1..Len(messages.elems) :
                    /\ requests[k].messages[i].role = messages.elems[i].role
                    /\ requests[k].messages[i].content = messages.elems[i].content

C4_Witness ==
    /\ invocations > 0
    /\ messages.kind = "list"
    /\ Len(messages.elems) = MaxLen
    /\ \A i \in 1..Len(messages.elems) : Exposes(messages.elems[i])
    /\ messages.elems[1].kind = "obj"
    /\ messages.elems[MaxLen].kind = "dict"
    /\ requests # <<>>

\* C5: an element of a list payload that does not expose both role and
\* content is skipped, so every message passed to the backend has both its
\* role and its content.
C5_MalformedSkipped ==
    invocations > 0 =>
        \A k \in 1..Len(requests) :
            \A i \in 1..Len(requests[k].messages) :
                /\ requests[k].messages[i].role # Absent
                /\ requests[k].messages[i].content # Absent

\* The payload has no recognised shape: a number, another object, an empty
\* list, or a list none of whose elements exposes role and content.
Unrecognized(payload) ==
    \/ payload.kind \in { "int", "object" }
    \/ /\ payload.kind = "list"
       /\ \A i \in 1..Len(payload.elems) : ~Exposes(payload.elems[i])

\* C6: for a payload of no recognised shape, the message list passed to the
\* backend is exactly one message with role "user" and the payload's string
\* representation as content; the backend never gets an empty message list.
C6_Fallback ==
    invocations > 0 =>
        /\ ~raised
        /\ \A k \in 1..Len(requests) : requests[k].messages # <<>>
        /\ Unrecognized(messages) =>
              /\ requests # <<>>
              /\ \A k \in 1..Len(requests) :
                    requests[k].messages =
                        << [role |-> "user", content |-> Str(messages)] >>

\* C7: every invocation of __call__ makes exactly one backend call, whether
\* it succeeds or fails; after n invocations the backend was called n times.
C7_OneCallPerInvocation ==
    /\ backendCalls = invocations
    /\ invocations > 0 => Len(requests) = 1

C7_Witness ==
    /\ invocations = MaxCalls
    /\ outcome.kind = "raise"
    /\ backendCalls = MaxCalls

\* C8: when the client library is unavailable, constructing an OllamaAgent
\* raises at once: no instance is obtained, so no invocation ever happens
\* and nothing is turned into an "Error: ..." value later.
C8_ConstructionFailsFast ==
    openai = "None" =>
        /\ agent = NoAgent
        /\ constructed # "ok"
        /\ invocations = 0
        /\ result = NoResult

C8_Witness ==
    /\ openai = "None"
    /\ constructed = "raised"
    /\ agent = NoAgent

\* Everything the CLI run printed, on either stream.
Emitted == stdout \o stderr

IsJsonError(item) == item.kind = "json" /\ DOMAIN item.obj = { "error" }

IsTextError(item) ==
    /\ item.kind = "text"
    /\ \E e \in { "whisper not installed. Run: pip install openai-whisper",
                  "model load failed", "recognition error",
                  "No such file or directory: 'clip.wav'" } :
          item.line = "Error: " \o e

\* C9: on every failure path of the CLI the error indicator follows the
\* output mode: a JSON object {error: <message>} for --output json, the text
\* "Error: <message>" for --output text.
C9_ErrorFollowsMode ==
    (pc = "exited" /\ exitStatus # 0) =>
        /\ Emitted # <<>>
        /\ \A i \in 1..Len(Emitted) :
              IF args.output = "json" THEN IsJsonError(Emitted[i])
              ELSE IsTextError(Emitted[i])

\* A transcript: the bare text, or the {text, language, segments} object.
IsTranscript(item) ==
    \/ item.kind = "text"
    \/ item.kind = "json" /\ DOMAIN item.obj = { "text", "language", "segments" }

RecognitionSucceeded ==
    /\ env.whisper = "ok"
    /\ env.load_model.kind = "ok"
    /\ env.transcribe.kind = "ok"

\* C10: a run that got past argument parsing exits with status 0 exactly
\* when recognition succeeded and the result was written to stdout; on every
\* failure the status is non-zero and no transcript is on stdout.
C10_ExitStatus ==
    pc = "exited" =>
        /\ exitStatus = 0 <=>
              (/\ RecognitionSucceeded
               /\ Len(stdout) = 1
               /\ IsTranscript(stdout[1]))
        /\ ~RecognitionSucceeded =>
              /\ exitStatus # 0
              /\ \A i \in 1..Len(stdout) : ~IsTranscript(stdout[i])

C10_Witness ==
    /\ pc = "exited"
    /\ args.output = "json"
    /\ env.whisper = "ok"
    /\ env.load_model.kind = "ok"
    /\ env.transcribe.kind = "raise"
    /\ exitStatus = 1
    /\ stdout # <<>>

====
